---- MODULE Spec2Model ----
(***************************************************************************)
(* Model of f1_visualizer.py: a single-pass script that loads a CSV of    *)
(* race results, derives five tables (driver trend, constructor trend,    *)
(* podium counts, recent-form average, 2025 projection) and renders them. *)
(*                                                                         *)
(* Conventions of the model                                                *)
(*  - a driver or constructor name is the natural number giving its rank  *)
(*    in the lexicographic order of names (pandas sorts group keys);      *)
(*  - a raw CSV position cell is a string token; a parsed position is     *)
(*    <<k>> for the number k and <<>> for NaN;                            *)
(*  - points are integers; a mean is the exact rational [num, den];       *)
(*  - a value rounded to one decimal is held in tenths (430.0 is 4300);   *)
(*  - sort_values runs numpy's quicksort, which fixes no order among      *)
(*    equal keys: an operator built on it yields the set of its possible  *)
(*    results and the action takes any one of them.                       *)
(***************************************************************************)
EXTENDS Integers, Sequences, FiniteSets, TLC

VARIABLES pc, file, df, status, screen, computed,
          top_drivers, driver_trend, top_constructors, cons_trend,
          podium_count, recent_years, driver_avg, projection_2025, top3

vars == <<pc, file, df, status, screen, computed,
          top_drivers, driver_trend, top_constructors, cons_trend,
          podium_count, recent_years, driver_avg, projection_2025, top3>>

views == <<top_drivers, driver_trend, top_constructors, cons_trend,
           podium_count, recent_years, driver_avg, projection_2025, top3>>

----------------------------------------------------------------------------
(* Program constants *)

TopN == 6
PodiumRows == 10
WindowStart == 2020
Races2025 == 20
ProjectionRows == 10
HeadlineRows == 3
Decimals == 1

PodiumPositions == {<<1>>, <<2>>, <<3>>}
PodiumLabels == <<"1st", "2nd", "3rd">>
AllColumns == {"year", "driver", "constructor", "position", "points"}

----------------------------------------------------------------------------
(* Bounds of the input datasets *)

NumDrivers == 11
NumTeams == 7
MaxExtra == 2

----------------------------------------------------------------------------
(* Generic helpers: pandas primitives on sequences of rows *)

Min(a, b) == IF a <= b THEN a ELSE b

RECURSIVE SortedSeq(_)
SortedSeq(S) ==
    IF S = {} THEN <<>>
    ELSE LET m == CHOOSE x \in S : \A y \in S : x <= y
         IN  <<m>> \o SortedSeq(S \ {m})

RECURSIVE SumPoints(_)
SumPoints(rows) ==
    IF rows = <<>> THEN 0 ELSE Head(rows).points + SumPoints(Tail(rows))

RemoveAt(s, i) == SubSeq(s, 1, i - 1) \o SubSeq(s, i + 1, Len(s))

Keys(rows, key) == {rows[i][key] : i \in DOMAIN rows}

Where(rows, key, k) == SelectSeq(rows, LAMBDA r : r[key] = k)

IsIn(rows, key, S) == SelectSeq(rows, LAMBDA r : r[key] \in S)

(* Series.index of a series held as a sequence of [key, value] *)
Index(series) == [i \in DOMAIN series |-> series[i].key]

IndexSet(series) == {series[i].key : i \in DOMAIN series}

(* df.groupby(key)['points'].sum(): one entry per key, keys ascending *)
GroupSum(rows, key) ==
    LET ks == SortedSeq(Keys(rows, key))
    IN  [i \in DOMAIN ks |->
            [key |-> ks[i], value |-> SumPoints(Where(rows, key, ks[i]))]]

(* df.groupby(key).size() *)
GroupSize(rows, key) ==
    LET ks == SortedSeq(Keys(rows, key))
    IN  [i \in DOMAIN ks |->
            [key |-> ks[i], value |-> Len(Where(rows, key, ks[i]))]]

FirstRows(s, n) == SubSeq(s, 1, Min(n, Len(s)))

Reverse(s) == [i \in DOMAIN s |-> s[Len(s) + 1 - i]]

(* Series.sort_values(ascending=False), kind='quicksort': numpy's quicksort
   is not stable, so entries with equal values come in an order the build
   decides. The set of all orders a build can give. *)
RECURSIVE SortDescending(_)
SortDescending(series) ==
    IF series = <<>> THEN {<<>>}
    ELSE LET top == {j \in DOMAIN series :
                        \A k \in DOMAIN series : series[k].value <= series[j].value}
         IN  UNION {{<<series[j]>> \o t : t \in SortDescending(RemoveAt(series, j))} :
                       j \in top}

(* the stable (mergesort) descending order of the fast path of nlargest:
   among equal values the earlier entry comes first *)
RECURSIVE StableDescending(_)
StableDescending(series) ==
    IF series = <<>> THEN <<>>
    ELSE LET i == CHOOSE j \in DOMAIN series :
                    /\ \A k \in DOMAIN series : series[k].value <= series[j].value
                    /\ \A k \in 1..(j - 1) : series[k].value < series[j].value
         IN  <<series[i]>> \o StableDescending(RemoveAt(series, i))

(* variant of NLargest: on the fast path the last of equal values is kept *)
NLargestKeepLast(series, n) ==
    IF n >= Len(series)
    THEN {FirstRows(s, n) : s \in SortDescending(series)}
    ELSE {FirstRows(StableDescending(Reverse(series)), n)}

(* Series.nlargest(n), keep='first', on a numeric series: the set of results.
   n >= len(series): sort_values(ascending=False).head(n); otherwise the n
   largest in stable order. *)
NLargest(series, n) ==
    IF n >= Len(series)
    THEN {FirstRows(s, n) : s \in SortDescending(series)}
    ELSE {FirstRows(StableDescending(series), n)}

(* the dtype of a column read from the CSV: a frame without rows has dtype
   object in every column, and nlargest raises TypeError on dtype object *)
Dtype(rows) == IF rows = <<>> THEN "object" ELSE "int64"

----------------------------------------------------------------------------
(* Loading *)

(* variant of ToNumeric: a cell that is no number becomes 1 instead of NaN *)
ToNumericFillsOne(cell) ==
    CASE cell = "2" -> <<2>>
      [] cell = "3" -> <<3>>
      [] cell = "9" -> <<9>>
      [] OTHER -> <<1>>

(* pd.to_numeric(cell, errors='coerce') on one cell *)
ToNumeric(cell) ==
    CASE cell = "1" -> <<1>>
      [] cell = "2" -> <<2>>
      [] cell = "3" -> <<3>>
      [] cell = "9" -> <<9>>
      [] OTHER -> <<>>

(* df['position'] = pd.to_numeric(df['position'], errors='coerce') *)
CoercePositions(rows) ==
    [i \in DOMAIN rows |-> [rows[i] EXCEPT !.position = ToNumeric(rows[i].position)]]

(* the statement of the try-block that raises, "none" if none does *)
LoadError(f) ==
    IF ~f.parseable THEN "read_csv"
    ELSE IF "position" \notin f.columns THEN "to_numeric"
    ELSE IF "year" \notin f.columns THEN "success_message"
    ELSE "none"

(* df as the try-block leaves it: unbound, read, or read and coerced *)
Loaded(f) ==
    CASE LoadError(f) = "read_csv" -> [columns |-> {}, rows |-> <<>>]
      [] LoadError(f) = "to_numeric" -> [columns |-> f.columns, rows |-> f.rows]
      [] OTHER -> [columns |-> f.columns, rows |-> CoercePositions(f.rows)]

----------------------------------------------------------------------------
(* Top 6 drivers and their per-season totals *)

TopDriversOf(rows) == {Index(s) : s \in NLargest(GroupSum(rows, "driver"), TopN)}

YearTotals(rows, key, k) ==
    LET mine == Where(rows, key, k)
        ys == SortedSeq(Keys(mine, "year"))
    IN  [i \in DOMAIN ys |->
            [key |-> k, year |-> ys[i], points |-> SumPoints(Where(mine, "year", ys[i]))]]

(* rows.groupby([key, 'year'])['points'].sum().reset_index() *)
RECURSIVE Concat(_)
Concat(ss) == IF ss = <<>> THEN <<>> ELSE Head(ss) \o Concat(Tail(ss))

GroupByKeyYear(rows, key) ==
    LET ks == SortedSeq(Keys(rows, key))
    IN  Concat([i \in DOMAIN ks |-> YearTotals(rows, key, ks[i])])

Range(s) == {s[i] : i \in DOMAIN s}

(* variant of DriverTrendOf: the isin filter is left out *)
DriverTrendUnfiltered(rows, top) == GroupByKeyYear(rows, "driver")

DriverTrendOf(rows, top) ==
    GroupByKeyYear(IsIn(rows, "driver", Range(top)), "driver")

----------------------------------------------------------------------------
(* Constructor trends: per-season totals first, then the top 6 of their sums *)

ConsSeasonTotals(rows) == GroupByKeyYear(rows, "constructor")

TopConstructorsOf(trend) == {Index(s) : s \in NLargest(GroupSum(trend, "key"), TopN)}

ConsTrendOf(trend, top) == IsIn(trend, "key", Range(top))

----------------------------------------------------------------------------
(* Podium table *)

PodiumOf(rows) == SelectSeq(rows, LAMBDA r : r.position \in PodiumPositions)

(* podium.pivot_table(index='driver', columns='position', aggfunc='size',
   fill_value=0).astype(int): one column per position that occurs *)
PivotSize(podium) ==
    LET cols == SortedSeq({podium[i].position[1] : i \in DOMAIN podium})
        ds == SortedSeq(Keys(podium, "driver"))
    IN  [columns |-> cols,
         rows |-> [i \in DOMAIN ds |->
            [driver |-> ds[i],
             cells |-> [c \in DOMAIN cols |->
                Len(SelectSeq(podium, LAMBDA r :
                       r.driver = ds[i] /\ r.position = <<cols[c]>>))]]]]

(* table.columns = labels is a ValueError unless the lengths agree *)
CanSetColumns(table, labels) == Len(table.columns) = Len(labels)

SetColumns(table, labels) == [table EXCEPT !.columns = labels]

RECURSIVE SumCells(_)
SumCells(cells) == IF cells = <<>> THEN 0 ELSE Head(cells) + SumCells(Tail(cells))

(* table['Total'] = table.sum(axis=1) *)
AddTotal(table) ==
    [columns |-> Append(table.columns, "Total"),
     rows |-> [i \in DOMAIN table.rows |->
        [table.rows[i] EXCEPT !.cells = Append(@, SumCells(@))]]]

ColumnAt(table, label) == CHOOSE c \in DOMAIN table.columns : table.columns[c] = label

(* the orders of the rows by column c, descending (quicksort: rows with equal
   keys in any order) *)
RECURSIVE SortRowsDescending(_, _)
SortRowsDescending(rows, c) ==
    IF rows = <<>> THEN {<<>>}
    ELSE LET top == {j \in DOMAIN rows :
                        \A k \in DOMAIN rows : rows[k].cells[c] <= rows[j].cells[c]}
         IN  UNION {{<<rows[j]>> \o t : t \in SortRowsDescending(RemoveAt(rows, j), c)} :
                       j \in top}

(* variant of SortValues: ascending order *)
SortValuesAscending(table, label) ==
    {[table EXCEPT !.rows = Reverse(r)] :
        r \in SortRowsDescending(table.rows, ColumnAt(table, label))}

(* table.sort_values(label, ascending=False): the set of results *)
SortValues(table, label) ==
    {[table EXCEPT !.rows = r] :
        r \in SortRowsDescending(table.rows, ColumnAt(table, label))}

HeadRows(table, n) == [table EXCEPT !.rows = FirstRows(@, n)]

(* table.drop(label, axis=1) *)
DropColumn(table, label) ==
    LET c == ColumnAt(table, label)
    IN  [columns |-> RemoveAt(table.columns, c),
         rows |-> [i \in DOMAIN table.rows |->
            [table.rows[i] EXCEPT !.cells = RemoveAt(@, c)]]]

(* lines 75-77 on the pivot table: the set of results *)
PodiumCountOf(pivot) ==
    {DropColumn(HeadRows(t, PodiumRows), "Total") :
        t \in SortValues(AddTotal(SetColumns(pivot, PodiumLabels)), "Total")}

----------------------------------------------------------------------------
(* Recent form and projection *)

(* df[df['year'] >= 2020] *)
RecentYearsOf(rows) == SelectSeq(rows, LAMBDA r : r.year >= WindowStart)

(* variant of Divide: the divisor is the number of seasons of the window *)
DivideByWindowLength(totals, counts) ==
    [i \in DOMAIN totals |->
        [key |-> totals[i].key, value |-> [num |-> totals[i].value, den |-> 5]]]

(* driver_total_points / driver_race_count, aligned on the driver index *)
Divide(totals, counts) ==
    [i \in DOMAIN totals |->
        [key |-> totals[i].key,
         value |-> [num |-> totals[i].value, den |-> counts[i].value]]]

(* Series.dropna(): a quotient is NaN only for 0/0 *)
DropNa(series) ==
    SelectSeq(series, LAMBDA e : ~(e.value.num = 0 /\ e.value.den = 0))

RatLess(a, b) == a.num * b.den < b.num * a.den

(* sort_values(ascending=False) of the averages (quicksort: equal averages
   in any order) *)
RECURSIVE SortAvgDescending(_)
SortAvgDescending(series) ==
    IF series = <<>> THEN {<<>>}
    ELSE LET top == {j \in DOMAIN series :
                        \A k \in DOMAIN series : ~RatLess(series[j].value, series[k].value)}
         IN  UNION {{<<series[j]>> \o t : t \in SortAvgDescending(RemoveAt(series, j))} :
                       j \in top}

(* lines 141-146: the set of results *)
DriverAvgOf(recent) ==
    SortAvgDescending(DropNa(Divide(GroupSum(recent, "driver"),
                                    GroupSize(recent, "driver"))))

(* 10^decimals *)
RECURSIVE Pow10(_)
Pow10(d) == IF d = 0 THEN 1 ELSE 10 * Pow10(d - 1)

(* variant of RoundHalfEven: the digits after the first decimal are cut off *)
Truncate(a, b) == a \div b

(* round half to even of a/b, for a >= 0 and b > 0 *)
RoundHalfEven(a, b) ==
    LET q == a \div b
        r == a % b
    IN  IF 2 * r < b THEN q
        ELSE IF 2 * r > b THEN q + 1
        ELSE IF q % 2 = 0 THEN q ELSE q + 1

(* (avg * 20).round(1), in units of 10^-1 *)
Projected(avg) == RoundHalfEven(avg.num * Races2025 * Pow10(Decimals), avg.den)

(* line 149: the set of results *)
Projection2025Of(avgs) ==
    NLargest([i \in DOMAIN avgs |->
                 [key |-> avgs[i].key, value |-> Projected(avgs[i].value)]],
             ProjectionRows)

(* int(pts) of the headline *)
Headline(entry) == entry.value \div Pow10(Decimals)


----------------------------------------------------------------------------
(* Input files: a grid of results per driver, plus a few extra rows *)

PodiumFinishes == <<"1", "2", "3">>
ExtraTokens == <<"3", "9", "">>
ExtraYears == <<2019, 2025>>
GridSizes == {0, 1, 3, 7, NumDrivers}
ExtraDrivers == <<2, 4, NumDrivers + 1>>
GridYears == <<2019, 2020, 2021, 2022, 2023, 2024>>

(* the points a finishing position scores *)
PointsFor(token) ==
    CASE token = "1" -> 25
      [] token = "2" -> 18
      [] token = "3" -> 15
      [] token = "9" -> 2
      [] OTHER -> 0

(* points on top of the position's score (fastest laps, sprints), per driver *)
Bonus(i) == (4 * (i - 1)) % 5

Cycle(s, i) == s[((i - 1) % Len(s)) + 1]

(* driver i has max(2, i) classified results; every fourth driver also a DNF *)
Finishes(i) == IF i < 2 THEN 2 ELSE i

Retires(i) == i % 4 = 0

GridRow(i, race) ==
    LET token == IF race <= Finishes(i) THEN Cycle(PodiumFinishes, i + race - 1)
                 ELSE "DNF"
    IN  [year |-> Cycle(GridYears, i + race + 3),
         driver |-> i,
         constructor |-> ((i + race - 2) % NumTeams) + 1,
         position |-> token,
         points |-> IF token = "DNF" THEN 0 ELSE PointsFor(token) + Bonus(i)]

RECURSIVE Grid(_)
Grid(n) ==
    IF n = 0 THEN <<>>
    ELSE Grid(n - 1) \o
         [race \in 1..(Finishes(n) + IF Retires(n) THEN 1 ELSE 0) |-> GridRow(n, race)]

NumExtraRows == Len(ExtraYears) * Len(ExtraDrivers) * Len(ExtraTokens)

ExtraRow(x) ==
    LET y == ExtraYears[(x % Len(ExtraYears)) + 1]
        d == ExtraDrivers[((x \div Len(ExtraYears)) % Len(ExtraDrivers)) + 1]
        token == ExtraTokens[(x \div (Len(ExtraYears) * Len(ExtraDrivers))) + 1]
    IN  [year |-> y,
         driver |-> d,
         constructor |-> ((d + y) % NumTeams) + 1,
         position |-> token,
         points |-> PointsFor(token)]

RECURSIVE ExtraChoices(_)
ExtraChoices(k) ==
    IF k = 0 THEN {{}}
    ELSE LET P == ExtraChoices(k - 1)
         IN  P \cup {c \cup {x} : c \in P, x \in 0..(NumExtraRows - 1)}

Extras(c) == LET xs == SortedSeq(c) IN [i \in DOMAIN xs |-> ExtraRow(xs[i])]

Datasets == {Grid(n) \o Extras(c) : n \in GridSizes, c \in ExtraChoices(MaxExtra)}

ColumnSets == {AllColumns} \cup {AllColumns \ {c} : c \in AllColumns}

NoFile == [exists |-> FALSE, parseable |-> FALSE, columns |-> {}, rows |-> <<>>]

Malformed == [exists |-> TRUE, parseable |-> FALSE, columns |-> {}, rows |-> <<>>]

Files ==
    {NoFile, Malformed} \cup
    {[exists |-> TRUE, parseable |-> TRUE, columns |-> cs, rows |-> rs] :
        cs \in ColumnSets, rs \in Datasets}

----------------------------------------------------------------------------
(* The script, one action per block *)

NoTable == [columns |-> <<>>, rows |-> <<>>]

NoFrame == [columns |-> {}, rows |-> <<>>]

Init ==
    /\ file \in Files
    /\ pc = "check_file"
    /\ df = NoFrame
    /\ status = "none"
    /\ screen = <<"title">>
    /\ computed = {}
    /\ top_drivers = <<>>
    /\ driver_trend = <<>>
    /\ top_constructors = <<>>
    /\ cons_trend = <<>>
    /\ podium_count = NoTable
    /\ recent_years = <<>>
    /\ driver_avg = <<>>
    /\ projection_2025 = <<>>
    /\ top3 = <<>>

(* variant of Stop: the error is shown and the script runs on *)
ShowErrorOnly(kind) ==
    /\ pc' = "sample"
    /\ status' = kind
    /\ screen' = Append(screen, "error")

(* st.error(...); st.stop() *)
Stop(kind) ==
    /\ pc' = "stopped"
    /\ status' = kind
    /\ screen' = Append(screen, "error")

(* an exception outside any try: the run ends with the traceback shown *)
Raise(kind) ==
    /\ pc' = "aborted"
    /\ status' = kind
    /\ screen' = Append(screen, "traceback")

(* if not os.path.exists(CSV_FILE): ... st.stop() *)
CheckFile ==
    /\ pc = "check_file"
    /\ IF ~file.exists
       THEN Stop("missing_input")
       ELSE /\ pc' = "load"
            /\ UNCHANGED <<status, screen>>
    /\ UNCHANGED <<file, df, computed, views>>

(* try: read_csv; to_numeric; st.success  except: st.error; st.stop *)
Load ==
    /\ pc = "load"
    /\ df' = Loaded(file)
    /\ computed' = IF LoadError(file) = "read_csv" THEN computed ELSE computed \cup {"df"}
    /\ IF LoadError(file) # "none"
       THEN Stop("load_failure")
       ELSE /\ screen' = Append(screen, "success")
            /\ pc' = "sample"
            /\ UNCHANGED status
    /\ UNCHANGED <<file, views>>

(* with st.expander(...): st.dataframe(df.head(10)) *)
ShowSample ==
    /\ pc = "sample"
    /\ screen' = Append(screen, "sample")
    /\ pc' = "top_drivers"
    /\ UNCHANGED <<file, df, status, computed, views>>

(* lines 59-60 *)
TopDrivers ==
    /\ pc = "top_drivers"
    /\ IF ~({"driver", "points"} \subseteq df.columns)
       THEN /\ Raise("KeyError")
            /\ UNCHANGED <<top_drivers, driver_trend, computed>>
       ELSE IF Dtype(df.rows) = "object"
       THEN /\ Raise("TypeError")
            /\ UNCHANGED <<top_drivers, driver_trend, computed>>
       ELSE /\ \E top \in TopDriversOf(df.rows) :
                  /\ top_drivers' = top
                  /\ driver_trend' = DriverTrendOf(df.rows, top)
            /\ computed' = computed \cup {"top_drivers", "driver_trend"}
            /\ pc' = "cons_trend"
            /\ UNCHANGED <<status, screen>>
    /\ UNCHANGED <<file, df, top_constructors, cons_trend, podium_count,
                   recent_years, driver_avg, projection_2025, top3>>

(* lines 63-65 *)
ConsTrend ==
    /\ pc = "cons_trend"
    /\ IF "constructor" \in df.columns
       THEN /\ \E top \in TopConstructorsOf(ConsSeasonTotals(df.rows)) :
                  /\ top_constructors' = top
                  /\ cons_trend' = ConsTrendOf(ConsSeasonTotals(df.rows), top)
            /\ computed' = computed \cup {"top_constructors", "cons_trend"}
            /\ pc' = "podium"
            /\ UNCHANGED <<status, screen>>
       ELSE /\ Raise("KeyError")
            /\ UNCHANGED <<top_constructors, cons_trend, computed>>
    /\ UNCHANGED <<file, df, top_drivers, driver_trend, podium_count,
                   recent_years, driver_avg, projection_2025, top3>>

(* lines 68-77; lines 69-74 bind podium_count to the pivot before line 75
   can raise *)
Podium ==
    /\ pc = "podium"
    /\ IF CanSetColumns(PivotSize(PodiumOf(df.rows)), PodiumLabels)
       THEN /\ podium_count' \in PodiumCountOf(PivotSize(PodiumOf(df.rows)))
            /\ pc' = "tabs"
            /\ UNCHANGED <<status, screen>>
       ELSE /\ podium_count' = PivotSize(PodiumOf(df.rows))
            /\ Raise("ValueError")
    /\ computed' = computed \cup {"podium_count"}
    /\ UNCHANGED <<file, df, top_drivers, driver_trend, top_constructors, cons_trend,
                   recent_years, driver_avg, projection_2025, top3>>

(* the four tabs, then the header of the prediction section *)
RenderTabs ==
    /\ pc = "tabs"
    /\ screen' = screen \o <<"driver_chart", "constructor_chart", "podium_heatmap",
                             "interactive_chart", "prediction_header">>
    /\ pc' = "recent"
    /\ UNCHANGED <<file, df, status, computed, views>>

RecentForm ==
    /\ pc = "recent"
    /\ recent_years' = RecentYearsOf(df.rows)
    /\ driver_avg' \in DriverAvgOf(RecentYearsOf(df.rows))
    /\ computed' = computed \cup {"recent_years", "driver_avg"}
    /\ pc' = "projection"
    /\ UNCHANGED <<file, df, status, screen, top_drivers, driver_trend,
                   top_constructors, cons_trend, podium_count, projection_2025, top3>>

Projection ==
    /\ pc = "projection"
    /\ \E p \in Projection2025Of(driver_avg) :
          /\ projection_2025' = p
          /\ top3' = FirstRows(p, HeadlineRows)
    /\ computed' = computed \cup {"projection_2025", "top3"}
    /\ pc' = "display"
    /\ UNCHANGED <<file, df, status, screen, top_drivers, driver_trend,
                   top_constructors, cons_trend, podium_count, recent_years, driver_avg>>

Display ==
    /\ pc = "display"
    /\ screen' = screen \o <<"projection_chart", "top3_ranking", "footer">>
    /\ pc' = "done"
    /\ UNCHANGED <<file, df, status, computed, views>>

Next ==
    \/ CheckFile
    \/ Load
    \/ ShowSample
    \/ TopDrivers
    \/ ConsTrend
    \/ Podium
    \/ RenderTabs
    \/ RecentForm
    \/ Projection
    \/ Display

Spec == Init /\ [][Next]_vars


----------------------------------------------------------------------------
(* Vocabulary of the properties *)

Drivers == Keys(df.rows, "driver")
Constructors == Keys(df.rows, "constructor")

Total(rows, key, k) == SumPoints(Where(rows, key, k))

NumericTokens == {"1", "2", "3", "9"}
PodiumTokens == {"1", "2", "3"}

(* the number of rows of the source file in which driver d finished 1st..3rd *)
SourcePodiums(d) ==
    Cardinality({i \in DOMAIN file.rows :
                    file.rows[i].driver = d /\ file.rows[i].position \in PodiumTokens})

RowTotal(row) == SumCells(row.cells)

TableDrivers(table) == {table.rows[i].driver : i \in DOMAIN table.rows}

Abs(x) == IF x < 0 THEN 0 - x ELSE x

----------------------------------------------------------------------------
(* C1: for every driver of top_drivers, the per-season totals of driver_trend
   add up to the driver's total over all rows of the dataset, and driver_trend
   has rows for no driver outside top_drivers. *)
C1_TrendSumsEqualTotals ==
    "driver_trend" \in computed =>
        /\ \A d \in Range(top_drivers) :
              Total(driver_trend, "key", d) = Total(df.rows, "driver", d)
        /\ \A i \in DOMAIN driver_trend : driver_trend[i].key \in Range(top_drivers)

(* more drivers than the top 6 holds, and a selected driver with two seasons *)
C1_Witness ==
    /\ "driver_trend" \in computed
    /\ Cardinality(Drivers) > TopN
    /\ \E i, j \in DOMAIN driver_trend :
          /\ driver_trend[i].key = driver_trend[j].key
          /\ driver_trend[i].year # driver_trend[j].year
          /\ driver_trend[i].points > 0

(* C2: every cell of the podium table is a non-negative integer; for every
   driver of the table the three cells add up to the number of that driver's
   source rows with position 1, 2 or 3; a missing or unparseable position is
   coerced to NaN, counts in no cell, and does not make the load fail. *)
C2_PodiumCellsCountSourceRows ==
    /\ "podium_count" \in computed =>
          \A i \in DOMAIN podium_count.rows :
             /\ \A c \in DOMAIN podium_count.rows[i].cells :
                   podium_count.rows[i].cells[c] \in Nat
             /\ RowTotal(podium_count.rows[i]) = SourcePodiums(podium_count.rows[i].driver)
    /\ ("df" \in computed /\ "position" \in df.columns) =>
          \A i \in DOMAIN df.rows :
             file.rows[i].position \notin NumericTokens => df.rows[i].position = <<>>
    /\ (file.exists /\ file.parseable /\ {"position", "year"} \subseteq file.columns)
          => status # "load_failure"

(* a driver of the table who also has a row with no numeric position *)
C2_Witness ==
    /\ "podium_count" \in computed
    /\ \E i \in DOMAIN podium_count.rows : \E j, k \in DOMAIN file.rows :
          /\ file.rows[j].driver = podium_count.rows[i].driver
          /\ file.rows[k].driver = podium_count.rows[i].driver
          /\ file.rows[j].position = "DNF"
          /\ file.rows[k].position = ""

(* C3: for every dataset that loads, the podium step yields a table with
   exactly the columns 1st, 2nd, 3rd, also when one of the positions 1, 2, 3
   never occurs or no podium row exists, and the run never aborts there. *)
C3_PodiumStepNeverAborts ==
    /\ status # "ValueError"
    /\ pc \in {"tabs", "recent", "projection", "display", "done"} =>
          /\ "podium_count" \in computed
          /\ podium_count.columns = PodiumLabels

MaxYear(rows) == CHOOSE y \in Keys(rows, "year") : \A z \in Keys(rows, "year") : z <= y

(* C4: the recent-form rows are exactly the rows of the five most recent
   seasons, max - 4 .. max, for every dataset. *)
C4_WindowIsLastFiveSeasons ==
    "recent_years" \in computed =>
        recent_years = SelectSeq(df.rows, LAMBDA r : r.year >= MaxYear(df.rows) - 4)

Entries(d) == Where(recent_years, "driver", d)

(* C5: driver_avg holds exactly the drivers with at least one entry in the
   window the script selected, each with (points in the window) / (entries
   in the window); a driver with no entry there is in neither driver_avg nor
   the projection. *)
C5_AverageOverOwnEntries ==
    /\ "driver_avg" \in computed =>
          /\ IndexSet(driver_avg) = {d \in Drivers : Len(Entries(d)) >= 1}
          /\ \A i \in DOMAIN driver_avg :
                /\ driver_avg[i].value.den = Len(Entries(driver_avg[i].key))
                /\ driver_avg[i].value.num = SumPoints(Entries(driver_avg[i].key))
                /\ driver_avg[i].value.den > 0
    /\ "projection_2025" \in computed =>
          \A d \in IndexSet(projection_2025) : Len(Entries(d)) >= 1

(* a driver with no entry in the window, one with a single entry, one with three *)
C5_Witness ==
    /\ "projection_2025" \in computed
    /\ \E d \in Drivers : Len(Entries(d)) = 0
    /\ \E i \in DOMAIN driver_avg : driver_avg[i].value.den = 1
    /\ \E i \in DOMAIN driver_avg :
          driver_avg[i].value.den >= 3 /\ driver_avg[i].value.num > 0

AvgOf(d) == driver_avg[CHOOSE i \in DOMAIN driver_avg : driver_avg[i].key = d].value

NearestTenth(v, avg) == 2 * Abs(v * avg.den - avg.num * Races2025 * 10) <= avg.den

(* avg * 20 rounds to a tenth that is not above v: it lies below v + 0.5, or
   on it with v even *)
RoundsToAtMost(avg, v) ==
    \/ 2 * avg.num * Races2025 * 10 < (2 * v + 1) * avg.den
    \/ 2 * avg.num * Races2025 * 10 = (2 * v + 1) * avg.den /\ v % 2 = 0

IsExample(d) ==
    /\ Len(Entries(d)) = 2
    /\ \E i, j \in DOMAIN Entries(d) :
          /\ Entries(d)[i].year = 2023 /\ Entries(d)[i].points = 25
          /\ Entries(d)[j].year = 2024 /\ Entries(d)[j].points = 18

(* C6: every projected value is the driver's average times 20 rounded to one
   decimal (the nearest tenth); rows (2023, 25) and (2024, 18) alone give the
   average 21.5 and the projection 430.0; the projection has at most 10
   drivers and no driver left out has a larger rounded value. *)
C6_ProjectionIsRoundedAverage ==
    "projection_2025" \in computed =>
        /\ Len(projection_2025) <= ProjectionRows
        /\ \A i \in DOMAIN projection_2025 :
              /\ projection_2025[i].key \in IndexSet(driver_avg)
              /\ NearestTenth(projection_2025[i].value, AvgOf(projection_2025[i].key))
        /\ \A d \in IndexSet(driver_avg) \ IndexSet(projection_2025) :
              \A i \in DOMAIN projection_2025 :
                 RoundsToAtMost(AvgOf(d), projection_2025[i].value)
        /\ \A d \in IndexSet(driver_avg) :
              IsExample(d) =>
                 /\ 2 * AvgOf(d).num = 43 * AvgOf(d).den
                 /\ \A i \in DOMAIN projection_2025 :
                       projection_2025[i].key = d => projection_2025[i].value = 4300

(* the example driver is projected, a driver is left out, a value is rounded up *)
C6_Witness ==
    /\ "projection_2025" \in computed
    /\ Len(driver_avg) > ProjectionRows
    /\ \E d \in IndexSet(projection_2025) : IsExample(d)
    /\ \E d \in IndexSet(projection_2025) :
          2 * ((AvgOf(d).num * Races2025 * 10) % AvgOf(d).den) > AvgOf(d).den


Halted == status \in {"missing_input", "load_failure"}

(* C7: a missing input file, and likewise a failed load, ends the run: the
   error is shown, no view is computed, nothing is rendered and no step
   follows; after the missing-input error the file was not read either. *)
C7_ErrorsAreTerminal ==
    /\ [](Halted =>
            /\ pc = "stopped"
            /\ computed \subseteq {"df"}
            /\ screen = <<"title", "error">>)
    /\ [](status = "missing_input" => computed = {} /\ df = NoFrame)
    /\ [](~file.exists => status \in {"none", "missing_input"})
    /\ []((~file.exists /\ pc # "check_file") => status = "missing_input")
    /\ []((file.exists /\ ~file.parseable /\ pc \notin {"check_file", "load"})
            => status = "load_failure")
    /\ [][~Halted]_vars

C7_Witness ==
    /\ status = "missing_input"
    /\ ~file.exists
    /\ pc = "stopped"

(* C8: a dataset lacking any one of the five expected columns ends in the
   load-failure state, with the load error shown and no view computed or
   rendered. *)
C8_MissingColumnIsLoadFailure ==
    (file.exists /\ file.parseable /\ file.columns # AllColumns
       /\ pc \notin {"check_file", "load"})
    => /\ status = "load_failure"
       /\ computed \subseteq {"df"}
       /\ screen = <<"title", "error">>

IsTopSelection(top, rows, key) ==
    /\ Len(top) = Min(TopN, Cardinality(Keys(rows, key)))
    /\ Cardinality(Range(top)) = Len(top)
    /\ Range(top) \subseteq Keys(rows, key)
    /\ \A s \in Range(top) : \A u \in Keys(rows, key) \ Range(top) :
          /\ Total(rows, key, u) <= Total(rows, key, s)
          /\ Total(rows, key, u) = Total(rows, key, s) => s < u

(* C9: at driver and at team granularity the selection has min(6, number of
   keys) keys, no unselected key has a larger total than a selected one, and
   among equal totals the key first in the grouped totals (the smaller key) is
   selected; the team path selects the keys and yields the series that the
   driver procedure gives at team granularity. *)
C9_TopSelections ==
    /\ "top_drivers" \in computed => IsTopSelection(top_drivers, df.rows, "driver")
    /\ "top_constructors" \in computed =>
          /\ IsTopSelection(top_constructors, df.rows, "constructor")
          /\ \E t \in NLargest(GroupSum(df.rows, "constructor"), TopN) :
                top_constructors = Index(t)
          /\ cons_trend = GroupByKeyYear(
                 IsIn(df.rows, "constructor", Range(top_constructors)), "constructor")

HasTieAtCut(top, rows, key) ==
    \E s \in Range(top) : \E u \in Keys(rows, key) \ Range(top) :
        Total(rows, key, u) = Total(rows, key, s)

(* both selections leave keys out, and each cuts through a tie *)
C9_Witness ==
    /\ "top_constructors" \in computed
    /\ HasTieAtCut(top_drivers, df.rows, "driver")
    /\ HasTieAtCut(top_constructors, df.rows, "constructor")

(* C10: the podium table has at most 10 rows, in order of non-increasing
   total, no driver left out has more podiums than a driver in it, and it has
   no Total column. *)
C10_PodiumTopTen ==
    ("podium_count" \in computed /\ status # "ValueError") =>
        /\ Len(podium_count.rows) <= PodiumRows
        /\ \A i, j \in DOMAIN podium_count.rows :
              i < j => RowTotal(podium_count.rows[i]) >= RowTotal(podium_count.rows[j])
        /\ \A d \in Drivers \ TableDrivers(podium_count) :
              \A i \in DOMAIN podium_count.rows :
                 SourcePodiums(d) <= RowTotal(podium_count.rows[i])
        /\ podium_count.columns = PodiumLabels
        /\ \A i \in DOMAIN podium_count.rows : Len(podium_count.rows[i].cells) = 3

(* a driver with podiums is left out, and the totals of the table differ *)
C10_Witness ==
    /\ "podium_count" \in computed
    /\ status # "ValueError"
    /\ \E d \in Drivers \ TableDrivers(podium_count) : SourcePodiums(d) > 0
    /\ \E i, j \in DOMAIN podium_count.rows :
          RowTotal(podium_count.rows[i]) > RowTotal(podium_count.rows[j])


====
